---- MODULE Spec2Model ----
(***************************************************************************)
(* State-machine model of ExamPaperService (exam-paper.service.ts): the    *)
(* AddAssessment and Question tables behind Prisma, and the service's      *)
(* request handlers, each split at its awaits so that requests interleave. *)
(***************************************************************************)
EXTENDS Integers, Sequences, FiniteSets, TLC

\* ------------------------------------------------------------------ bounds

\* Highest id the AddAssessment autoincrement sequence hands out.
MaxPapers == 2

\* Highest id the Question autoincrement sequence hands out.
MaxQuestionIds == 3

\* updateQuestion and updateExamPaper requests the clients send.
MaxUpdates == 1

\* Manual assessments ever created, and ManualAssessmentService.update
\* requests ever started.
MaxManual == 1
MaxManualUpdates == 2

\* Requests in flight at the same time.
Procs == {"r1", "r2"}

AIds == 1..MaxPapers
QIds == 1..MaxQuestionIds

\* ------------------------------------------------------- JavaScript values

\* An optional string of a DTO or CSV row: undefined, or a string.
Undefined == [def |-> FALSE, s |-> ""]
Str(s) == [def |-> TRUE, s |-> s]

\* `x || ''` on an optional string: undefined and '' are both falsy.
OrEmptyKeepsUnset(x) == IF x.def THEN x.s ELSE "<unset>"
OrEmpty(x) == IF x.def /\ x.s # "" THEN x.s ELSE ""

\* An optional boolean of a DTO: undefined, true or false.
NoBool == [def |-> FALSE, b |-> FALSE]
Bool(b) == [def |-> TRUE, b |-> b]

\* Boolean(x): undefined is falsy, a boolean is itself.
ToBoolean(x) == x.def /\ x.b

\* ------------------------------------------------------------- CSV parsing

\* A CSV field is a sequence of tokens: a bracket, a comma, a blank, a
\* backslash, a quoted JSON string literal, or a bare (unquoted) word.
StrLits == {"\"A\"", "\"B\"", "\"C\""}

Unquote(tok) ==
    CASE tok = "\"A\"" -> "A"
      [] tok = "\"B\"" -> "B"
      [] tok = "\"C\"" -> "C"

NotBackslash(tok) == tok # "\\"

\* .replace(/\\/g, '')
StripBackslashes(s) == SelectSeq(s, NotBackslash)

RECURSIVE TrimLeft(_)
TrimLeft(s) ==
    IF s # <<>> /\ Head(s) = " " THEN TrimLeft(Tail(s)) ELSE s

RECURSIVE TrimRight(_)
TrimRight(s) ==
    IF s # <<>> /\ s[Len(s)] = " " THEN TrimRight(SubSeq(s, 1, Len(s) - 1)) ELSE s

\* .trim()
Trim(s) == TrimRight(TrimLeft(s))

RECURSIVE JoinFields(_)
\* .map(field => data[field]).filter(Boolean).join(''): an absent column and
\* an empty one are both dropped, the rest concatenated in column order.
JoinFields(fields) ==
    IF fields = <<>> THEN <<>> ELSE Head(fields) \o JoinFields(Tail(fields))

\* The bracket repair of the combined options string.
Repair(s) ==
    LET a == IF s = <<>> \/ Head(s) # "[" THEN <<"[">> \o s ELSE s
    IN  IF a[Len(a)] # "]" THEN a \o <<"]">> ELSE a

ParseFail == [ok |-> FALSE, val |-> <<>>, next |-> 0]

RECURSIVE SkipWs(_, _)
SkipWs(t, i) == IF i <= Len(t) /\ t[i] = " " THEN SkipWs(t, i + 1) ELSE i

RECURSIVE ParseValue(_, _), ParseElements(_, _, _)
\* JSON.parse restricted to the token alphabet: a value is a string literal
\* or an array of values.
ParseValue(t, i) ==
    LET j == SkipWs(t, i)
    IN  IF j > Len(t) THEN ParseFail
        ELSE IF t[j] \in StrLits
        THEN [ok |-> TRUE, val |-> Unquote(t[j]), next |-> j + 1]
        ELSE IF t[j] = "["
        THEN LET k == SkipWs(t, j + 1)
             IN  IF k <= Len(t) /\ t[k] = "]"
                 THEN [ok |-> TRUE, val |-> <<>>, next |-> k + 1]
                 ELSE ParseElements(t, j + 1, <<>>)
        ELSE ParseFail
ParseElements(t, i, acc) ==
    LET v == ParseValue(t, i)
    IN  IF ~v.ok THEN ParseFail
        ELSE LET k == SkipWs(t, v.next)
             IN  IF k > Len(t) THEN ParseFail
                 ELSE IF t[k] = ","
                 THEN ParseElements(t, k + 1, Append(acc, v.val))
                 ELSE IF t[k] = "]"
                 THEN [ok |-> TRUE, val |-> Append(acc, v.val), next |-> k + 1]
                 ELSE ParseFail

JsonParse(t) ==
    LET v == ParseValue(t, 1)
    IN  IF v.ok /\ SkipWs(t, v.next) > Len(t) THEN v ELSE ParseFail

\* The 'data' handler of parseCsv on one row: the parsed options, or the
\* JSON.parse exception that makes the handler log and skip the row.
ParseRow(row) ==
    JsonParse(Repair(Trim(StripBackslashes(JoinFields(row.fields)))))

RECURSIVE ParseCsvKeepBad(_)
ParseCsvKeepBad(file) ==
    IF file = <<>> THEN <<>>
    ELSE LET row == Head(file)
             r == ParseRow(row)
         IN  <<[content |-> row.content,
                answer |-> OrEmpty(row.answer),
                options |-> r.val]>> \o ParseCsvKeepBad(Tail(file))

RECURSIVE ParseCsv(_)
\* parseCsv: the records of the rows that parse, in file order.
ParseCsv(file) ==
    IF file = <<>> THEN <<>>
    ELSE LET row == Head(file)
             r == ParseRow(row)
         IN  (IF r.ok
              THEN <<[content |-> row.content,
                      answer |-> OrEmpty(row.answer),
                      options |-> r.val]>>
              ELSE <<>>) \o ParseCsv(Tail(file))

\* Sample rows: the six option-bearing columns options, _3 .. _7.
RowWhole ==
    [content |-> "Q1", answer |-> Str("A"),
     fields |-> << <<"[", "\"A\"", ",", "\"B\"", "]">>, <<>>, <<>>, <<>>, <<>>, <<>> >>]
RowSplit ==
    [content |-> "Q2", answer |-> Undefined,
     fields |-> << <<" ", "[", "\\", "\"A\"">>, <<",", "\\", "\"C\"", " ">>, <<>>, <<>>, <<>>, <<>> >>]
RowBare ==
    [content |-> "Q3", answer |-> Str(""),
     fields |-> << <<"\"B\"">>, <<>>, <<",">>, <<"\"C\"">>, <<>>, <<>> >>]
RowBroken ==
    [content |-> "Q4", answer |-> Str("B"),
     fields |-> << <<"[", "A", ",">>, <<"\"B\"", "]">>, <<>>, <<>>, <<>>, <<>> >>]

\* Sample files: no row, only a broken row, a good row after a broken one,
\* three good rows.
NoRows == <<>>
FileBroken == <<RowBroken>>
FileOne == <<RowBroken, RowWhole>>
FileThree == <<RowWhole, RowSplit, RowBare>>

\* The upload directory: the rows of the file stored at each path.
Paths == {"up/0", "up/b", "up/1", "up/3"}
Disk(path) ==
    CASE path = "up/0" -> NoRows
      [] path = "up/b" -> FileBroken
      [] path = "up/1" -> FileOne
      [] path = "up/3" -> FileThree

\* An uploaded file: whether one was sent, its original name, its path.
EndsWithCsv(name) == name = "q.csv"
NoFile == [present |-> FALSE, originalname |-> "", path |-> ""]
FileInputs ==
    {NoFile}
    \cup {[present |-> TRUE, originalname |-> "q.txt", path |-> "up/3"]}
    \cup {[present |-> TRUE, originalname |-> "q.csv", path |-> f] : f \in Paths}

\* ------------------------------------------------------ schedule validation

\* A scheduledDate string as the strict pattern 'YYYY-MM-DD HH:mm:ss' reads it:
\* whether it has the pattern's layout, and the numbers in its fields (the
\* year is 2025 throughout).
DateString(shape, mo, d, h, mi, s) ==
    [shape |-> shape, mo |-> mo, d |-> d, h |-> h, mi |-> mi, s |-> s]

DaysInMonth(mo) ==
    CASE mo = 2 -> 28
      [] mo \in {4, 6, 9, 11} -> 30
      [] OTHER -> 31

RECURSIVE DaysBefore(_)
DaysBefore(mo) == IF mo <= 1 THEN 0 ELSE DaysBefore(mo - 1) + DaysInMonth(mo - 1)

\* moment(s, 'YYYY-MM-DD HH:mm:ss', true).isValid()
StrictDateValid(ds) ==
    /\ ds.shape
    /\ ds.mo \in 1..12
    /\ ds.d \in 1..DaysInMonth(ds.mo)
    /\ ds.h \in 0..23
    /\ ds.mi \in 0..59
    /\ ds.s \in 0..59

\* An absolute timestamp: seconds since 2025-01-01 00:00:00 local time.
DateToTs(ds) ==
    (DaysBefore(ds.mo) + ds.d - 1) * 86400 + ds.h * 3600 + ds.mi * 60 + ds.s

\* Number(part) on one ':'-separated part of a time string.
NaN == [nan |-> TRUE, n |-> 0]
Num(n) == [nan |-> FALSE, n |-> n]
Digits == <<"0", "1", "2", "3", "4", "5", "6", "7", "8", "9">>
IsDigit(c) == \E i \in 1..10 : Digits[i] = c
DigitVal(c) == (CHOOSE i \in 1..10 : Digits[i] = c) - 1

RECURSIVE Decimal(_)
Decimal(cs) ==
    IF cs = <<>> THEN 0
    ELSE Decimal(SubSeq(cs, 1, Len(cs) - 1)) * 10 + DigitVal(cs[Len(cs)])

\* A part is the list of its characters: '' is 0, a run of digits is its
\* decimal value, anything else here is NaN.
NumberOf(part) ==
    IF \A i \in 1..Len(part) : IsDigit(part[i]) THEN Num(Decimal(part)) ELSE NaN

\* A time string is kept as the list split(':') gives.
TimeParts(t) == [i \in 1..Len(t) |-> NumberOf(t[i])]

\* moment(scheduledDate).set({hour, minute, second}): the day of the
\* scheduled date with the time of day replaced; values out of range carry
\* over into the next unit, NaN makes the moment invalid.
SetTime(ts, parts) ==
    [valid |-> ~(parts[1].nan \/ parts[2].nan \/ parts[3].nan),
     ts |-> (ts \div 86400) * 86400
            + parts[1].n * 3600 + parts[2].n * 60 + parts[3].n]

Courses == {1}

ParseInt(s) == CASE s = "1" -> 1 [] s = "7" -> 7 [] OTHER -> 0

\* The checks with the scheduled date read before the question set.
ValidateDateFirst(file, dto) ==
    LET qs == IF file.present THEN ParseCsv(Disk(file.path)) ELSE <<>>
        sp == TimeParts(dto.startTime)
        ep == TimeParts(dto.endTime)
        sd == DateToTs(dto.scheduledDate)
    IN  IF ~file.present \/ ~EndsWithCsv(file.originalname)
        THEN [status |-> "InvalidFile"]
        ELSE IF ~StrictDateValid(dto.scheduledDate)
        THEN [status |-> "InvalidScheduleFormat"]
        ELSE IF Len(qs) = 0
        THEN [status |-> "EmptyQuestionSet"]
        ELSE IF Len(sp) # 3 \/ Len(ep) # 3
        THEN [status |-> "InvalidTimeFormat"]
        ELSE IF ~SetTime(sd, sp).valid \/ ~SetTime(sd, ep).valid
        THEN [status |-> "InvalidTimeFormat"]
        ELSE [status |-> "ok",
              questions |-> qs,
              scheduledDate |-> sd,
              startTime |-> SetTime(sd, sp).ts,
              endTime |-> SetTime(sd, ep).ts]

\* Lines 241-275 of uploadExamPaper: the checks before the transaction, in
\* order, and the values the transaction persists.
Validate(file, dto) ==
    LET qs == IF file.present THEN ParseCsv(Disk(file.path)) ELSE <<>>
        sp == TimeParts(dto.startTime)
        ep == TimeParts(dto.endTime)
        sd == DateToTs(dto.scheduledDate)
    IN  IF ~file.present \/ ~EndsWithCsv(file.originalname)
        THEN [status |-> "InvalidFile"]
        ELSE IF Len(qs) = 0
        THEN [status |-> "EmptyQuestionSet"]
        ELSE IF ~StrictDateValid(dto.scheduledDate)
        THEN [status |-> "InvalidScheduleFormat"]
        ELSE IF Len(sp) # 3 \/ Len(ep) # 3
        THEN [status |-> "InvalidTimeFormat"]
        ELSE IF ~SetTime(sd, sp).valid \/ ~SetTime(sd, ep).valid
        THEN [status |-> "InvalidTimeFormat"]
        ELSE [status |-> "ok",
              questions |-> qs,
              scheduledDate |-> sd,
              startTime |-> SetTime(sd, sp).ts,
              endTime |-> SetTime(sd, ep).ts]

\* Inputs of the service model: a well-formed request, and requests that
\* differ from it in one field.
D20250101 == DateString(TRUE, 1, 1, 0, 0, 0)      \* "2025-01-01 00:00:00"
D20251340 == DateString(FALSE, 13, 40, 0, 0, 0)   \* "2025-13-40"
T00 == <<"0", "0">>
T090000 == << <<"0", "9">>, T00, T00 >>           \* "09:00:00"
T110000 == << <<"1", "1">>, T00, T00 >>           \* "11:00:00"
T0900 == << <<"0", "9">>, T00 >>                  \* "09:00"
Txx0000 == << <<"x", "x">>, T00, T00 >>           \* "xx:00:00"

GoodDto ==
    [title |-> Str("t1"), scheduledDate |-> D20250101, startTime |-> T090000,
     endTime |-> T110000, courseId |-> "1", isDraft |-> NoBool]
GoodFile == [present |-> TRUE, originalname |-> "q.csv", path |-> "up/3"]

UploadInputs ==
    {[file |-> f, dto |-> GoodDto] : f \in FileInputs}
    \cup {[file |-> GoodFile, dto |-> d] : d \in
            {[GoodDto EXCEPT !.isDraft = Bool(TRUE)],
             [GoodDto EXCEPT !.isDraft = Bool(FALSE)],
             [GoodDto EXCEPT !.scheduledDate = D20251340],
             [GoodDto EXCEPT !.startTime = T0900],
             [GoodDto EXCEPT !.endTime = Txx0000],
             [GoodDto EXCEPT !.courseId = "7"]}}

\* Requests for the schedule checks alone: every combination of a file that
\* is missing, misnamed, without a usable row or good, a scheduled date that
\* is well-formed or not, and start and end times that are in range, out of
\* range, short of a part or not numeric.
D20250310 == DateString(TRUE, 3, 10, 10, 30, 0)   \* "2025-03-10 10:30:00"
T250000 == << <<"2", "5">>, T00, T00 >>           \* "25:00:00"
ScheduleFiles ==
    {NoFile,
     [present |-> TRUE, originalname |-> "q.txt", path |-> "up/3"],
     [present |-> TRUE, originalname |-> "q.csv", path |-> "up/b"],
     [present |-> TRUE, originalname |-> "q.csv", path |-> "up/1"]}
ScheduleDates == {D20250310, D20251340}
ScheduleTimes == {T090000, T110000, T250000, T0900, Txx0000}
ScheduleInputs ==
    {[file |-> f,
      dto |-> [GoodDto EXCEPT !.scheduledDate = d, !.startTime = st, !.endTime = et]] :
        f \in ScheduleFiles, d \in ScheduleDates, st \in ScheduleTimes, et \in ScheduleTimes}

\* The outcome of the checks for each of the requests: they read nothing of
\* the tables, so a request has the same outcome whenever it arrives.
Validated == [in \in UploadInputs \cup ScheduleInputs |-> Validate(in.file, in.dto)]

UpdateExamPaperDtos ==
    {[title |-> Undefined, isDraft |-> NoBool],
     [title |-> Str("t2"), isDraft |-> Bool(TRUE)]}

\* ------------------------------------------------------------------- state

VARIABLES
    assessments,  \* AddAssessment table (committed): id -> row
    questions,    \* Question table (committed): id -> row
    nextAid,      \* AddAssessment autoincrement sequence
    nextQid,      \* Question autoincrement sequence
    pc,           \* per request: where its handler stands
    op,           \* per request: the handler running
    arg,          \* per request: the handler's parameters
    loc,          \* per request: the handler's local variables
    tx,           \* per request: the uncommitted writes of its $transaction
    res,          \* per request: what the handler returned or threw
    usedAid,      \* highest AddAssessment id ever committed
    usedQid,      \* highest Question id ever committed
    manualAssessments,  \* ManualAssessment table: id -> row
    questionManuals,    \* QuestionManual table, in id order
    updates       \* updateQuestion and updateExamPaper requests received

vars ==
    <<assessments, questions, nextAid, nextQid, pc, op, arg, loc, tx, res,
      usedAid, usedQid, updates, manualAssessments, questionManuals>>

NoArg == [id |-> 0, qid |-> 0, dto |-> <<>>]
NoLoc == [snap |-> <<>>, i |-> 0, qs |-> <<>>, data |-> <<>>, aid |-> 0, pending |-> {}]
NoTx == [newA |-> <<>>, newQ |-> <<>>, del |-> {}, num |-> <<>>]
NoRes == [status |-> "", out |-> <<>>]

Init ==
    /\ assessments = <<>>
    /\ questions = <<>>
    /\ nextAid = 1
    /\ nextQid = 1
    /\ pc = [p \in Procs |-> "idle"]
    /\ op = [p \in Procs |-> ""]
    /\ arg = [p \in Procs |-> NoArg]
    /\ loc = [p \in Procs |-> NoLoc]
    /\ tx = [p \in Procs |-> NoTx]
    /\ res = [p \in Procs |-> NoRes]
    /\ usedAid = 0
    /\ usedQid = 0
    /\ updates = 0
    /\ manualAssessments = <<>>
    /\ questionManuals = <<>>

\* ------------------------------------------------------------ store queries

\* A function without the keys in ks.
Without(f, ks) == [k \in DOMAIN f \ ks |-> f[k]]

\* where: { assessmentId: a }
QuestionsOf(qs, a) == {q \in DOMAIN qs : qs[q].assessmentId = a}

\* A Question row as a query returns it.
QuestionRow(qs, q) ==
    [id |-> q,
     assessmentId |-> qs[q].assessmentId,
     questionNumber |-> qs[q].questionNumber,
     content |-> qs[q].content,
     options |-> qs[q].options,
     answer |-> qs[q].answer]

RECURSIVE OrderByNumber(_, _)
\* orderBy: { questionNumber: 'asc' }, rows of equal number by id.
OrderByNumber(qs, ids) ==
    IF ids = {} THEN <<>>
    ELSE LET m == CHOOSE x \in ids : \A y \in ids :
                      \/ qs[x].questionNumber < qs[y].questionNumber
                      \/ qs[x].questionNumber = qs[y].questionNumber /\ x <= y
         IN  <<QuestionRow(qs, m)>> \o OrderByNumber(qs, ids \ {m})

\* findMany({ where: { assessmentId }, orderBy: { questionNumber: 'asc' } })
FindQuestions(qs, a) == OrderByNumber(qs, QuestionsOf(qs, a))

\* findUnique({ where: { id }, include: { questions: { orderBy } } })
PaperWithQuestions(as, qs, a) ==
    [id |-> a,
     title |-> as[a].title,
     isDraft |-> as[a].isDraft,
     scheduledDate |-> as[a].scheduledDate,
     startTime |-> as[a].startTime,
     endTime |-> as[a].endTime,
     courseId |-> as[a].courseId,
     questions |-> FindQuestions(qs, a)]

SeqOfSet(S) ==
    CHOOSE f \in [1..Cardinality(S) -> S] : \A i, j \in 1..Cardinality(S) : i < j => f[i] < f[j]

\* ------------------------------------------------------------ transactions

\* The rows a request's open transaction has written and so holds locked.
Locked(o) == tx[o].del \cup DOMAIN tx[o].num
LockedByOther(p, q) == \E o \in Procs \ {p} : q \in Locked(o)

\* Whether a statement of p's transaction finds row q: the committed rows
\* less the ones the transaction itself deleted.
RowExists(p, q) == q \in DOMAIN questions /\ q \notin tx[p].del

\* The committed tables once a transaction's writes are applied.
ApplyTx(qs, t) ==
    [q \in (DOMAIN qs \ t.del) \cup DOMAIN t.newQ |->
        IF q \in DOMAIN t.newQ THEN t.newQ[q]
        ELSE IF q \in DOMAIN t.num
        THEN [qs[q] EXCEPT !.questionNumber = t.num[q]]
        ELSE qs[q]]

\* prisma.question.delete inside the transaction callback.
TxDeleteUnbuffered(p, q) ==
    /\ questions' = Without(questions, {q})
    /\ tx' = tx
TxDelete(p, q) ==
    /\ tx' = [tx EXCEPT ![p].del = @ \cup {q}]
    /\ questions' = questions

\* prisma.question.update({ data: { questionNumber } }) inside the callback.
TxSetNumberUnbuffered(p, q, n) ==
    /\ questions' = [questions EXCEPT ![q].questionNumber = n]
    /\ tx' = tx
TxSetNumber(p, q, n) ==
    /\ tx' = [tx EXCEPT ![p].num = (q :> n) @@ @]
    /\ questions' = questions

\* prisma.addAssessment.create and prisma.question.create inside the callback.
TxCreateAssessmentUnbuffered(p, a, data) ==
    /\ assessments' = (a :> data) @@ assessments
    /\ tx' = [tx EXCEPT ![p].newA = (a :> data) @@ @]
TxCreateAssessment(p, a, data) ==
    /\ tx' = [tx EXCEPT ![p].newA = (a :> data) @@ @]
    /\ assessments' = assessments

TxCreateQuestion(p, q, data) ==
    tx' = [tx EXCEPT ![p].newQ = (q :> data) @@ @]

\* How a handler ends: its return value or the exception it throws.
\* The handler ends: it returns out or throws status.
Respond(p, status, out) ==
    /\ pc' = [pc EXCEPT ![p] = "done"]
    /\ res' = [res EXCEPT ![p] = [status |-> status, out |-> out]]

\* The handler goes on to its next await.
Await(p, label) ==
    /\ pc' = [pc EXCEPT ![p] = label]
    /\ res' = res

\* The same for the handlers of ExamPaperService, which never touch the
\* tables of ManualAssessmentService.
Finish(p, status, out) ==
    /\ Respond(p, status, out)
    /\ UNCHANGED <<manualAssessments, questionManuals>>

Goto(p, label) ==
    /\ Await(p, label)
    /\ UNCHANGED <<manualAssessments, questionManuals>>

\* A response is sent as soon as its handler ends, before any request moves on.
Responded == \A o \in Procs : pc[o] # "done"

At(p, label) == Responded /\ pc[p] = label

Begin(p, name, a) ==
    /\ At(p, "idle")
    /\ IF name \in {"updateQuestion", "updateExamPaper"}
       THEN updates < MaxUpdates /\ updates' = updates + 1
       ELSE IF name = "ManualAssessmentService.update"
       THEN updates < MaxManualUpdates /\ updates' = updates + 1
       ELSE updates' = updates
    /\ op' = [op EXCEPT ![p] = name]
    /\ arg' = [arg EXCEPT ![p] = a]

\* ----------------------------------------------------------- deleteExamPaper

DepFind(p) ==
    /\ At(p, "idle")
    /\ \E id \in AIds :
        /\ Begin(p, "deleteExamPaper", [NoArg EXCEPT !.id = id])
        /\ IF id \notin DOMAIN assessments
           THEN Finish(p, "NotFound", <<>>)
           ELSE Goto(p, "dep_count")
        /\ UNCHANGED <<assessments, questions, nextAid, nextQid, loc, tx, usedAid, usedQid>>

\* findMany({ where: { assessmentId: id } }) and the length check.
DepCount(p) ==
    /\ At(p, "dep_count")
    /\ loc' = [loc EXCEPT ![p].snap = FindQuestions(questions, arg[p].id)]
    /\ IF Len(FindQuestions(questions, arg[p].id)) > 0
       THEN Finish(p, "HasDependentQuestions", <<>>)
       ELSE Goto(p, "dep_delete")
    /\ UNCHANGED <<assessments, questions, nextAid, nextQid, op, arg, tx, updates, usedAid, usedQid>>

\* addAssessment.delete: throws when the row is gone.
DepDelete(p) ==
    /\ At(p, "dep_delete")
    /\ IF arg[p].id \notin DOMAIN assessments
       THEN /\ Finish(p, "StoreError", <<>>)
            /\ assessments' = assessments
       ELSE /\ assessments' = Without(assessments, {arg[p].id})
            /\ Finish(p, "ok", <<>>)
    /\ UNCHANGED <<questions, nextAid, nextQid, op, arg, loc, tx, updates, usedAid, usedQid>>

\* ----------------------------------------------------------- updateExamPaper

UepFind(p) ==
    /\ At(p, "idle")
    /\ \E id \in AIds, dto \in UpdateExamPaperDtos :
        /\ Begin(p, "updateExamPaper", [NoArg EXCEPT !.id = id, !.dto = dto])
        /\ IF id \notin DOMAIN assessments
           THEN Finish(p, "NotFound", <<>>)
           ELSE Goto(p, "uep_update")
        /\ UNCHANGED <<assessments, questions, nextAid, nextQid, loc, tx, usedAid, usedQid>>

\* The data of addAssessment.update: title stands for the six fields written
\* (title, description, courseUnit, courseUnitCode, duration, createdBy); an
\* undefined field is left as it is.
UepDataWithDraft(row, dto) ==
    [row EXCEPT !.title = IF dto.title.def THEN dto.title.s ELSE @,
                !.isDraft = ToBoolean(dto.isDraft)]
UepData(row, dto) ==
    [row EXCEPT !.title = IF dto.title.def THEN dto.title.s ELSE @]

UepUpdate(p) ==
    /\ At(p, "uep_update")
    /\ IF arg[p].id \notin DOMAIN assessments
       THEN /\ Finish(p, "StoreError", <<>>)
            /\ assessments' = assessments
       ELSE /\ assessments' =
                 [assessments EXCEPT ![arg[p].id] = UepData(@, arg[p].dto)]
            /\ Finish(p, "ok", <<>>)
    /\ UNCHANGED <<questions, nextAid, nextQid, op, arg, loc, tx, updates, usedAid, usedQid>>

\* ---------------------------------------------------------- publishExamPaper

PubFind(p) ==
    /\ At(p, "idle")
    /\ \E id \in AIds :
        /\ Begin(p, "publishExamPaper", [NoArg EXCEPT !.id = id])
        /\ IF id \notin DOMAIN assessments
           THEN Finish(p, "NotFound", <<>>)
           ELSE Goto(p, "pub_update")
        /\ UNCHANGED <<assessments, questions, nextAid, nextQid, loc, tx, usedAid, usedQid>>

PubDataToggle(row) == [row EXCEPT !.isDraft = ~@]
PubData(row) == [row EXCEPT !.isDraft = FALSE]

PubUpdate(p) ==
    /\ At(p, "pub_update")
    /\ IF arg[p].id \notin DOMAIN assessments
       THEN /\ Finish(p, "StoreError", <<>>)
            /\ assessments' = assessments
       ELSE /\ assessments' = [assessments EXCEPT ![arg[p].id] = PubData(@)]
            /\ Finish(p, "ok", <<>>)
    /\ UNCHANGED <<questions, nextAid, nextQid, op, arg, loc, tx, updates, usedAid, usedQid>>

\* -------------------------------------------------------- deleteQuestionById

SnapshotIds(snap) == {snap[i].id : i \in 1..Len(snap)}

NotTheQuestion(snap, qid) == SelectSeq(snap, LAMBDA q : q.id # qid)

RECURSIVE InsertByNumber(_, _)
InsertByNumber(sorted, q) ==
    IF sorted = <<>> THEN <<q>>
    ELSE IF sorted[Len(sorted)].questionNumber <= q.questionNumber
    THEN Append(sorted, q)
    ELSE Append(InsertByNumber(SubSeq(sorted, 1, Len(sorted) - 1), q),
                sorted[Len(sorted)])

RECURSIVE SortByNumber(_)
\* .sort((a, b) => a.questionNumber - b.questionNumber), which is stable.
SortByNumber(rows) ==
    IF rows = <<>> THEN <<>>
    ELSE InsertByNumber(SortByNumber(SubSeq(rows, 1, Len(rows) - 1)), rows[Len(rows)])

\* remainingQuestions: the snapshot less the deleted question, by number.
RemainingQuestions(snap, qid) == SortByNumber(NotTheQuestion(snap, qid))

\* data: { questionNumber: i + 1 }
NewNumberSameAsIndex(i) == i
NewNumberKeepsGap(i) == i + 2
NewNumber(i) == i + 1

\* findUnique with the ordered questions, then the two NotFound checks.
DqFind(p) ==
    /\ At(p, "idle")
    /\ \E id \in AIds, qid \in QIds :
        /\ Begin(p, "deleteQuestionById", [NoArg EXCEPT !.id = id, !.qid = qid])
        /\ IF id \notin DOMAIN assessments
           THEN /\ Finish(p, "NotFound", <<>>)
                /\ loc' = loc
           ELSE LET snap == FindQuestions(questions, id)
                IN  IF qid \notin SnapshotIds(snap)
                    THEN /\ Finish(p, "NotFound", <<>>)
                         /\ loc' = loc
                    ELSE /\ Goto(p, "dq_delete")
                         /\ loc' = [loc EXCEPT ![p].snap = snap]
        /\ UNCHANGED <<assessments, questions, nextAid, nextQid, tx, usedAid, usedQid>>

Max(S) == CHOOSE x \in S : \A y \in S : y <= x

\* The ids the open transactions of the requests in ps have taken.
OpenAids(ps) == UNION {DOMAIN tx[o].newA : o \in ps}
OpenQids(ps) == UNION {DOMAIN tx[o].newQ : o \in ps}

\* A statement that throws inside the callback: the transaction rolls back.
\* No request ever saw the ids it had taken from the sequences, so the model
\* hands them out again.
Rollback(p) ==
    /\ tx' = [tx EXCEPT ![p] = NoTx]
    /\ nextAid' = Max({usedAid} \cup OpenAids(Procs \ {p})) + 1
    /\ nextQid' = Max({usedQid} \cup OpenQids(Procs \ {p})) + 1
    /\ Finish(p, "StoreError", <<>>)

\* question.delete({ where: { id: questionId } }): waits for a row another
\* transaction holds, throws when the row is gone.
DqDelete(p) ==
    /\ At(p, "dq_delete")
    /\ ~LockedByOther(p, arg[p].qid)
    /\ IF ~RowExists(p, arg[p].qid)
       THEN /\ Rollback(p)
            /\ UNCHANGED <<questions, loc>>
       ELSE /\ TxDelete(p, arg[p].qid)
            /\ loc' = [loc EXCEPT ![p].i = 0]
            /\ Goto(p, IF RemainingQuestions(loc[p].snap, arg[p].qid) = <<>>
                       THEN "dq_commit" ELSE "dq_renumber")
            /\ UNCHANGED <<nextAid, nextQid>>
    /\ UNCHANGED <<assessments, op, arg, updates, usedAid, usedQid>>

\* One turn of the renumbering loop.
DqRenumber(p) ==
    /\ At(p, "dq_renumber")
    /\ LET remaining == RemainingQuestions(loc[p].snap, arg[p].qid)
           i == loc[p].i
           q == remaining[i + 1].id
       IN  /\ ~LockedByOther(p, q)
           /\ IF ~RowExists(p, q)
              THEN /\ Rollback(p)
                   /\ UNCHANGED <<questions, loc>>
              ELSE /\ TxSetNumber(p, q, NewNumber(i))
                   /\ loc' = [loc EXCEPT ![p].i = i + 1]
                   /\ Goto(p, IF i + 1 < Len(remaining)
                              THEN "dq_renumber" ELSE "dq_commit")
                   /\ UNCHANGED <<nextAid, nextQid>>
    /\ UNCHANGED <<assessments, op, arg, updates, usedAid, usedQid>>

\* The callback returned: the transaction commits.
DqCommit(p) ==
    /\ At(p, "dq_commit")
    /\ questions' = ApplyTx(questions, tx[p])
    /\ tx' = [tx EXCEPT ![p] = NoTx]
    /\ Finish(p, "ok", <<>>)
    /\ UNCHANGED <<assessments, nextAid, nextQid, op, arg, loc, updates, usedAid, usedQid>>

\* The row the next statement of p's transaction is about to touch.
NextRow(p) ==
    CASE pc[p] = "dq_delete" -> arg[p].qid
      [] pc[p] = "dq_renumber" ->
            RemainingQuestions(loc[p].snap, arg[p].qid)[loc[p].i + 1].id
      [] OTHER -> 0

\* Two transactions each waiting for a row the other holds: the store ends
\* one of them with an error.
DeadlockAbort(p) ==
    /\ Responded
    /\ \E o \in Procs \ {p} : NextRow(p) \in Locked(o) /\ NextRow(o) \in Locked(p)
    /\ Rollback(p)
    /\ UNCHANGED <<assessments, questions, op, arg, loc, updates, usedAid, usedQid>>

\* ------------------------------------------------------------ updateQuestion

NoOptions == [def |-> FALSE, v |-> <<>>]
UpdateQuestionDtos ==
    {[content |-> Undefined, options |-> NoOptions, answer |-> Undefined],
     [content |-> Str("Q9"), options |-> [def |-> TRUE, v |-> <<"C">>], answer |-> Str("B")]}

UqFind(p) ==
    /\ At(p, "idle")
    /\ \E id \in AIds, qid \in QIds, dto \in UpdateQuestionDtos :
        /\ Begin(p, "updateQuestion", [id |-> id, qid |-> qid, dto |-> dto])
        /\ IF qid \notin DOMAIN questions
           THEN Finish(p, "NotFound", <<>>)
           ELSE Goto(p, "uq_update")
        /\ UNCHANGED <<assessments, questions, nextAid, nextQid, loc, tx, usedAid, usedQid>>

\* The data of question.update with the question's number written as well.
UqDataRenumbers(row, dto) ==
    [row EXCEPT !.content = IF dto.content.def THEN dto.content.s ELSE @,
                !.options = IF dto.options.def THEN dto.options.v ELSE @,
                !.answer = OrEmpty(dto.answer),
                !.questionNumber = @ + 1]

\* The data of question.update: an undefined field is left as it is.
UqData(row, dto) ==
    [row EXCEPT !.content = IF dto.content.def THEN dto.content.s ELSE @,
                !.options = IF dto.options.def THEN dto.options.v ELSE @,
                !.answer = OrEmpty(dto.answer)]

UqUpdate(p) ==
    /\ At(p, "uq_update")
    /\ ~LockedByOther(p, arg[p].qid)
    /\ IF arg[p].qid \notin DOMAIN questions
       THEN /\ Finish(p, "StoreError", <<>>)
            /\ questions' = questions
       ELSE /\ questions' = [questions EXCEPT ![arg[p].qid] = UqData(@, arg[p].dto)]
            /\ Finish(p, "ok", <<QuestionRow(questions', arg[p].qid)>>)
    /\ UNCHANGED <<assessments, nextAid, nextQid, op, arg, loc, tx, updates, usedAid, usedQid>>

\* -------------------------------------------------------- deleteAllQuestions

DaFind(p) ==
    /\ At(p, "idle")
    /\ \E id \in AIds :
        /\ Begin(p, "deleteAllQuestions", [NoArg EXCEPT !.id = id])
        /\ IF id \notin DOMAIN assessments
           THEN Finish(p, "NotFound", <<>>)
           ELSE Goto(p, "da_delete")
        /\ UNCHANGED <<assessments, questions, nextAid, nextQid, loc, tx, usedAid, usedQid>>

\* question.deleteMany({ where: { assessmentId } }): one statement, which
\* waits while another transaction holds one of the rows.
DaDeleteMany(p) ==
    /\ At(p, "da_delete")
    /\ \A q \in QuestionsOf(questions, arg[p].id) : ~LockedByOther(p, q)
    /\ questions' = Without(questions, QuestionsOf(questions, arg[p].id))
    /\ Finish(p, "ok", <<>>)
    /\ UNCHANGED <<assessments, nextAid, nextQid, op, arg, loc, tx, updates, usedAid, usedQid>>

\* ------------------------------------------------------------------- readers

GetAllExamPapers(p) ==
    /\ Begin(p, "getAllExamPapers", NoArg)
    /\ Finish(p, "ok", [i \in 1..Cardinality(DOMAIN assessments) |->
            PaperWithQuestions(assessments, questions, SeqOfSet(DOMAIN assessments)[i])])
    /\ UNCHANGED <<assessments, questions, nextAid, nextQid, loc, tx, usedAid, usedQid>>

PreviewExamPaper(p) ==
    /\ At(p, "idle")
    /\ \E id \in AIds :
        /\ Begin(p, "previewExamPaper", [NoArg EXCEPT !.id = id])
        /\ IF id \notin DOMAIN assessments
           THEN Finish(p, "NotFound", <<>>)
           ELSE Finish(p, "ok", <<PaperWithQuestions(assessments, questions, id)>>)
        /\ UNCHANGED <<assessments, questions, nextAid, nextQid, loc, tx, usedAid, usedQid>>

PreviewAllQuestions(p) ==
    /\ At(p, "idle")
    /\ \E id \in AIds :
        /\ Begin(p, "previewAllQuestions", [NoArg EXCEPT !.id = id])
        /\ IF FindQuestions(questions, id) = <<>>
           THEN Finish(p, "NotFound", <<>>)
           ELSE Finish(p, "ok", FindQuestions(questions, id))
        /\ UNCHANGED <<assessments, questions, nextAid, nextQid, loc, tx, usedAid, usedQid>>

\* ({ answer, ...questionWithoutAnswer }) => questionWithoutAnswer
WithAnswer(q) == q
WithoutAnswer(q) ==
    [id |-> q.id,
     assessmentId |-> q.assessmentId,
     questionNumber |-> q.questionNumber,
     content |-> q.content,
     options |-> q.options]

\* The value allQuestionsNoAnswer returns or the error it throws.
NoAnswerView(qs, id) ==
    LET found == FindQuestions(qs, id)
    IN  IF found = <<>>
        THEN [status |-> "NotFound", out |-> <<>>]
        ELSE [status |-> "ok",
              out |-> [i \in 1..Len(found) |-> WithoutAnswer(found[i])]]

AllQuestionsNoAnswer(p) ==
    /\ At(p, "idle")
    /\ \E id \in AIds :
        /\ Begin(p, "allQuestionsNoAnswer", [NoArg EXCEPT !.id = id])
        /\ Finish(p, NoAnswerView(questions, id).status, NoAnswerView(questions, id).out)
        /\ UNCHANGED <<assessments, questions, nextAid, nextQid, loc, tx, usedAid, usedQid>>

\* ----------------------------------------------------------- uploadExamPaper

TwoDigits(n) == <<Digits[(n \div 10) + 1], Digits[(n % 10) + 1]>>

\* moment(ts).format('HH:mm:ss'), as the list of its ':'-separated parts.
FormatTime(ts) ==
    LET t == ts % 86400
    IN  <<TwoDigits(t \div 3600), TwoDigits((t % 3600) \div 60), TwoDigits(t % 60)>>

MonthOfDay(doy) == CHOOSE mo \in 1..12 : DaysBefore(mo) <= doy /\ doy < DaysBefore(mo + 1)

\* moment(ts).format('YYYY-MM-DD HH:mm:ss')
FormatDate(ts) ==
    LET doy == ts \div 86400
        t == ts % 86400
    IN  DateString(TRUE, MonthOfDay(doy), doy - DaysBefore(MonthOfDay(doy)) + 1,
                   t \div 3600, (t % 3600) \div 60, t % 60)

\* isDraft: Boolean(uploadExamPaperDto.isDraft)
IsDraftOf(dto) == ToBoolean(dto.isDraft)

\* The data of addAssessment.create.
AssessmentData(v, dto) ==
    [title |-> dto.title.s,
     isDraft |-> IsDraftOf(dto),
     scheduledDate |-> v.scheduledDate,
     startTime |-> v.startTime,
     endTime |-> v.endTime,
     courseId |-> ParseInt(dto.courseId)]

\* questionNumber: index + 1
NumberOfIndex(index) == index + 1

\* The data of question.create for the parsed question at `index`.
QuestionData(question, index, aid) ==
    [assessmentId |-> aid,
     questionNumber |-> NumberOfIndex(index),
     content |-> question.content,
     options |-> question.options,
     answer |-> IF question.answer # "" THEN question.answer ELSE ""]

\* The uploads in flight and the inserts they have yet to make: an upload is
\* admitted only while the ids it needs are below the bounds.
Uploading == {o \in Procs : pc[o] = "up_create"}
RECURSIVE SumPending(_)
SumPending(ps) ==
    IF ps = {} THEN 0
    ELSE LET o == CHOOSE x \in ps : TRUE
         IN  (IF pc[o] = "up_create" THEN Len(loc[o].qs)
              ELSE IF pc[o] = "up_insert" THEN Cardinality(loc[o].pending)
              ELSE 0) + SumPending(ps \ {o})
PendingInserts == SumPending(Procs)

\* Lines 241-275: the file check, parseCsv and the schedule checks, which
\* touch nothing shared; a failed check throws before the transaction opens.
UploadFrom(p, inputs) ==
    /\ At(p, "idle")
    /\ \E in \in inputs :
        /\ Begin(p, "uploadExamPaper", [NoArg EXCEPT !.dto = in])
        /\ LET v == Validated[in]
           IN  IF v.status # "ok"
               THEN /\ Finish(p, v.status, <<>>)
                    /\ loc' = loc
               ELSE /\ nextAid + Cardinality(Uploading) <= MaxPapers
                    /\ nextQid + PendingInserts + Len(v.questions) - 1 <= MaxQuestionIds
                    /\ Goto(p, "up_create")
                    /\ loc' = [loc EXCEPT ![p].qs = v.questions,
                                          ![p].data = AssessmentData(v, in.dto)]
        /\ UNCHANGED <<assessments, questions, nextAid, nextQid, tx, usedAid, usedQid>>

UpValidate(p) == UploadFrom(p, UploadInputs)

\* The same handler fed the requests for the schedule checks.
UpValidateSchedule(p) == UploadFrom(p, ScheduleInputs)

\* addAssessment.create inside the callback; connect throws when the course
\* does not exist. The questions.map(...) then issues every question.create.
UpCreate(p) ==
    /\ At(p, "up_create")
    /\ IF loc[p].data.courseId \notin Courses
       THEN /\ Rollback(p)
            /\ loc' = loc
            /\ assessments' = assessments
       ELSE /\ TxCreateAssessment(p, nextAid, loc[p].data)
            /\ nextAid' = nextAid + 1
            /\ nextQid' = nextQid
            /\ loc' = [loc EXCEPT ![p].aid = nextAid,
                                  ![p].pending = 1..Len(loc[p].qs)]
            /\ Goto(p, "up_insert")
    /\ UNCHANGED <<questions, op, arg, updates, usedAid, usedQid>>

\* One of the pending question.create calls completes, in any order; the
\* store may reject it, which rejects Promise.all and rolls back.
UpInsert(p) ==
    /\ At(p, "up_insert")
    /\ \E k \in loc[p].pending, accepted \in BOOLEAN :
       IF ~accepted
       THEN /\ Rollback(p)
            /\ loc' = loc
       ELSE /\ TxCreateQuestion(p, nextQid, QuestionData(loc[p].qs[k], k - 1, loc[p].aid))
            /\ nextQid' = nextQid + 1
            /\ nextAid' = nextAid
            /\ loc' = [loc EXCEPT ![p].pending = @ \ {k}]
            /\ Goto(p, IF loc[p].pending = {k} THEN "up_commit" ELSE "up_insert")
    /\ UNCHANGED <<assessments, questions, op, arg, updates, usedAid, usedQid>>

\* The value the callback returns: the paper re-read inside the transaction
\* with its timestamps formatted.
UploadResult(as, qs, aid) ==
    [PaperWithQuestions(as, qs, aid) EXCEPT
        !.scheduledDate = FormatDate(@),
        !.startTime = FormatTime(@),
        !.endTime = FormatTime(@)]

\* What a transaction's commit makes visible.
Commit(as, qs, t) ==
    [assessments |-> t.newA @@ as, questions |-> ApplyTx(qs, t)]

\* findUnique inside the transaction, then the commit.
UpCommit(p) ==
    /\ At(p, "up_commit")
    /\ assessments' = Commit(assessments, questions, tx[p]).assessments
    /\ questions' = Commit(assessments, questions, tx[p]).questions
    /\ tx' = [tx EXCEPT ![p] = NoTx]
    /\ usedAid' = Max({usedAid} \cup DOMAIN tx[p].newA)
    /\ usedQid' = Max({usedQid} \cup DOMAIN tx[p].newQ)
    /\ Finish(p, "ok", <<UploadResult(assessments', questions', loc[p].aid)>>)
    /\ UNCHANGED <<nextAid, nextQid, op, arg, loc, updates>>

\* ----------------------------------------------------------------- behaviour

\* The response is sent; the slot then takes the next request.
Return(p) ==
    /\ pc[p] = "done"
    /\ pc' = [pc EXCEPT ![p] = "idle"]
    /\ op' = [op EXCEPT ![p] = ""]
    /\ arg' = [arg EXCEPT ![p] = NoArg]
    /\ loc' = [loc EXCEPT ![p] = NoLoc]
    /\ res' = [res EXCEPT ![p] = NoRes]
    /\ UNCHANGED <<assessments, questions, nextAid, nextQid, tx, updates, usedAid, usedQid,
                   manualAssessments, questionManuals>>

\* --------------------------------------------------- ManualAssessmentService

MIds == 1..(MaxManual + 1)

\* The scalar fields of a manual assessment; courseId is a number, the others
\* are taken as strings.
MaFields ==
    {"title", "description", "courseId", "courseUnit", "courseUnitCode",
     "duration", "scheduledDate", "startTime", "endTime", "createdBy"}

Falsy(f) == IF f = "courseId" THEN 0 ELSE ""
PriorValue(f) == IF f = "courseId" THEN 1 ELSE "old"
NewValue(f) == IF f = "courseId" THEN 2 ELSE "new"

\* An optional field of a DTO.
Omitted(f) == [def |-> FALSE, v |-> Falsy(f)]
Given(v) == [def |-> TRUE, v |-> v]

\* data.f || assessment.f
OrPrior(f, x, prior) == IF x.def /\ x.v # Falsy(f) THEN x.v ELSE prior

Quote(s) ==
    CASE s = "A" -> "\"A\""
      [] s = "B" -> "\"B\""
      [] s = "C" -> "\"C\""

RECURSIVE StringifyItems(_)
StringifyItems(v) ==
    IF v = <<>> THEN <<>>
    ELSE IF Len(v) = 1 THEN <<Quote(v[1])>>
    ELSE <<Quote(v[1]), ",">> \o StringifyItems(Tail(v))

\* JSON.stringify of an array of strings, in the tokens of the CSV fields.
JsonStringify(v) == <<"[">> \o StringifyItems(v) \o <<"]">>

MQ1 == [questionText |-> "Q1", options |-> <<"A", "B">>, correctAnswer |-> "A"]
MQ2 == [questionText |-> "Q2", options |-> <<"C">>, correctAnswer |-> "C"]

NoList == [def |-> FALSE, v |-> <<>>]
List(v) == [def |-> TRUE, v |-> v]
QuestionLists == {NoList, List(<<>>), List(<<MQ1>>), List(<<MQ1, MQ2>>)}

\* data.questions?.map(...) || []
MapQuestions(list) ==
    IF list.def
    THEN [i \in 1..Len(list.v) |->
            [questions |-> list.v[i].questionText,
             options |-> JsonStringify(list.v[i].options),
             correctAnswer |-> list.v[i].correctAnswer]]
    ELSE <<>>

\* questions: { create: rows } nested in a write of assessment id: one new
\* QuestionManual row per element, linked to the assessment.
NestedCreate(table, id, rows) ==
    table \o [i \in 1..Len(rows) |->
                [assessmentId |-> id,
                 questions |-> rows[i].questions,
                 options |-> rows[i].options,
                 correctAnswer |-> rows[i].correctAnswer]]

\* include: { questions: true }
ManualQuestionsOf(table, id) ==
    LET Mine(row) == row.assessmentId = id IN SelectSeq(table, Mine)

OneField(f, v) == [g \in MaFields |-> IF g = f THEN Given(v) ELSE Omitted(g)]

CreateManualDtos ==
    [fields : {[f \in MaFields |-> Given(PriorValue(f))]},
     questions : {NoList, List(<<MQ1>>)}]

UpdateManualDtos ==
    [fields : {[f \in MaFields |-> Omitted(f)]}
              \cup {OneField(f, NewValue(f)) : f \in MaFields}
              \cup {OneField(f, Falsy(f)) : f \in MaFields},
     questions : QuestionLists]

ExamPaperTables == <<assessments, questions, nextAid, nextQid, tx, usedAid, usedQid>>

\* create(data)
MaCreate(p) ==
    /\ At(p, "idle")
    /\ Cardinality(DOMAIN manualAssessments) < MaxManual
    /\ \E dto \in CreateManualDtos :
        LET id == Cardinality(DOMAIN manualAssessments) + 1
            row == [f \in MaFields |-> dto.fields[f].v]
        IN  /\ Begin(p, "ManualAssessmentService.create", [NoArg EXCEPT !.id = id, !.dto = dto])
            /\ manualAssessments' = manualAssessments @@ (id :> row)
            /\ questionManuals' = NestedCreate(questionManuals, id, MapQuestions(dto.questions))
            /\ Respond(p, "ok", <<row>>)
    /\ UNCHANGED <<ExamPaperTables, loc>>

\* findOne(id)
MaFindOne(p) ==
    /\ At(p, "idle")
    /\ \E id \in MIds :
        /\ Begin(p, "ManualAssessmentService.findOne", [NoArg EXCEPT !.id = id])
        /\ IF id \notin DOMAIN manualAssessments
           THEN Respond(p, "NotFound", <<>>)
           ELSE Respond(p, "ok", <<manualAssessments[id],
                                   ManualQuestionsOf(questionManuals, id)>>)
    /\ UNCHANGED <<ExamPaperTables, loc, manualAssessments, questionManuals>>

\* update(id, data), up to the end of `await this.findOne(id)`.
MaUpdateFind(p) ==
    /\ At(p, "idle")
    /\ \E id \in MIds, dto \in UpdateManualDtos :
        /\ Begin(p, "ManualAssessmentService.update", [NoArg EXCEPT !.id = id, !.dto = dto])
        /\ IF id \notin DOMAIN manualAssessments
           THEN /\ Respond(p, "NotFound", <<>>)
                /\ loc' = loc
           ELSE /\ Await(p, "ma_update")
                /\ loc' = [loc EXCEPT ![p].data = manualAssessments[id],
                                      ![p].qs = ManualQuestionsOf(questionManuals, id)]
    /\ UNCHANGED <<ExamPaperTables, manualAssessments, questionManuals>>

\* The data of manualAssessment.update, from the DTO and the row findOne read.
MaUpdateData(dto, assessment) ==
    [f \in MaFields |-> OrPrior(f, dto.fields[f], assessment[f])]

\* update(id, data): prisma.manualAssessment.update with its nested create.
\* No handler modelled here removes a manual assessment, so the row is there.
MaUpdate(p) ==
    /\ At(p, "ma_update")
    /\ manualAssessments' =
         [manualAssessments EXCEPT ![arg[p].id] = MaUpdateData(arg[p].dto, loc[p].data)]
    /\ questionManuals' =
         NestedCreate(questionManuals, arg[p].id, MapQuestions(arg[p].dto.questions))
    /\ Respond(p, "ok", <<manualAssessments'[arg[p].id]>>)
    /\ UNCHANGED <<ExamPaperTables, op, arg, loc, updates>>

Next ==
    \E p \in Procs :
        \/ DepFind(p)
        \/ DepCount(p)
        \/ DepDelete(p)
        \/ UepFind(p)
        \/ UepUpdate(p)
        \/ PubFind(p)
        \/ PubUpdate(p)
        \/ DqFind(p)
        \/ DqDelete(p)
        \/ DqRenumber(p)
        \/ DqCommit(p)
        \/ DeadlockAbort(p)
        \/ UqFind(p)
        \/ UqUpdate(p)
        \/ DaFind(p)
        \/ DaDeleteMany(p)
        \/ GetAllExamPapers(p)
        \/ PreviewExamPaper(p)
        \/ PreviewAllQuestions(p)
        \/ AllQuestionsNoAnswer(p)
        \/ UpValidate(p)
        \/ UpCreate(p)
        \/ UpInsert(p)
        \/ UpCommit(p)
        \/ Return(p)

Spec == Init /\ [][Next]_vars

\* uploadExamPaper alone, over the requests for the schedule checks.
NextSchedule ==
    \E p \in Procs :
        \/ UpValidateSchedule(p)
        \/ UpCreate(p)
        \/ UpInsert(p)
        \/ UpCommit(p)
        \/ Return(p)

SpecSchedule == Init /\ [][NextSchedule]_vars

\* ManualAssessmentService alone.
NextManual ==
    \E p \in Procs :
        \/ MaCreate(p)
        \/ MaFindOne(p)
        \/ MaUpdateFind(p)
        \/ MaUpdate(p)
        \/ Return(p)

SpecManual == Init /\ [][NextManual]_vars

\* -------------------------------------------------------------- properties

\* Rows in the order a query returns them carry the numbers 1, 2, .. in turn.
Dense(rows) == \A i \in 1..Len(rows) : rows[i].questionNumber = i

\* The same rows numbered by their position.
Renumbered(rows) == [i \in 1..Len(rows) |-> [rows[i] EXCEPT !.questionNumber = i]]

Ended(p, name, status) ==
    pc[p] = "done" /\ op[p] = name /\ res[p].status = status

\* C1: in every reachable state, whatever the interleaving of requests, the
\* questions of each exam paper carry exactly the numbers 1..N, each once.
C1_DenseNumbering ==
    \A a \in AIds : Dense(FindQuestions(questions, a))

\* A deleteQuestionById took the first of three questions and committed while
\* another deleteQuestionById on the same paper still holds its older snapshot.
C1_Witness ==
    \E p \in Procs, o \in Procs :
        /\ Ended(p, "deleteQuestionById", "ok")
        /\ Len(loc[p].snap) = 3
        /\ loc[p].snap[1].id = arg[p].qid
        /\ Cardinality(QuestionsOf(questions, arg[p].id)) = 2
        /\ op[o] = "deleteQuestionById" /\ pc[o] = "dq_delete"
        /\ arg[o].id = arg[p].id

\* C2: the step in which a deleteQuestionById succeeds removes the question
\* named and no other, and leaves the N-1 other questions of the paper in
\* their order, numbered 1..N-1, with content, options and answer as before.
C2_DeleteKeepsOthers ==
    [][\A p \in Procs :
          (/\ pc[p] # "done" /\ pc'[p] = "done"
           /\ op[p] = "deleteQuestionById"
           /\ res'[p].status = "ok")
          => LET before == FindQuestions(questions, arg[p].id)
                 after == FindQuestions(questions', arg[p].id)
             IN  /\ Dense(before)
                 /\ Len(after) = Len(before) - 1
                 /\ after = Renumbered(NotTheQuestion(before, arg[p].qid))
                 /\ \A q \in DOMAIN questions \ QuestionsOf(questions, arg[p].id) :
                        q \in DOMAIN questions' /\ questions'[q] = questions[q]]_vars

\* Question 2 of 3 was deleted: the two others of the snapshot are there,
\* numbered 1 and 2.
C2_Witness ==
    \E p \in Procs :
        /\ Ended(p, "deleteQuestionById", "ok")
        /\ Len(loc[p].snap) = 3
        /\ loc[p].snap[2].id = arg[p].qid
        /\ FindQuestions(questions, arg[p].id)
              = Renumbered(NotTheQuestion(loc[p].snap, arg[p].qid))

\* The rows of a file whose options parse.
ParsesOk(row) == ParseRow(row).ok
Survivors(rows) == SelectSeq(rows, ParsesOk)

\* C3: after a successful upload of a file whose surviving rows are r_1..r_N
\* the new paper owns N questions and the one built from r_i has number i,
\* whatever the order in which the inserts completed.
C3_UploadNumbersSurvivors ==
    \A p \in Procs :
        Ended(p, "uploadExamPaper", "ok")
        => LET rows == Survivors(Disk(arg[p].dto.file.path))
               stored == FindQuestions(questions, loc[p].aid)
           IN  /\ Len(stored) = Len(rows)
               /\ \A i \in 1..Len(rows) :
                     /\ stored[i].questionNumber = i
                     /\ stored[i].content = rows[i].content
                     /\ stored[i].options = ParseRow(rows[i]).val
                     /\ stored[i].answer = OrEmpty(rows[i].answer)

\* An upload of three rows whose inserts completed out of file order.
C3_Witness ==
    \E p \in Procs :
        /\ Ended(p, "uploadExamPaper", "ok")
        /\ LET stored == FindQuestions(questions, loc[p].aid)
           IN  /\ Len(stored) = 3
               /\ stored[1].id > stored[2].id
               /\ stored[3].id < stored[2].id

Readers ==
    {"previewExamPaper", "previewAllQuestions", "allQuestionsNoAnswer", "getAllExamPapers"}

\* The question lists in a reader's response.
ViewLists(p) ==
    IF op[p] \in {"previewExamPaper", "getAllExamPapers"}
    THEN {res[p].out[i].questions : i \in 1..Len(res[p].out)}
    ELSE {res[p].out}

\* Whether a reader's response covers paper a.
Covers(p, a) == op[p] = "getAllExamPapers" \/ arg[p].id = a

\* C4: a reader that runs while a deleteQuestionById is in progress gets, for
\* every paper, a list numbered 1..N without gap or duplicate; while the
\* delete's transaction is open that list is the whole pre-delete set, the
\* question being deleted included.
C4_ReadersSeeWholeSets ==
    \A p \in Procs :
        (pc[p] = "done" /\ op[p] \in Readers /\ res[p].status = "ok")
        => /\ \A rows \in ViewLists(p) : Dense(rows)
           /\ \A o \in Procs \ {p} :
                 (op[o] = "deleteQuestionById" /\ tx[o].del # {} /\ Covers(p, arg[o].id))
                 => \E rows \in ViewLists(p) :
                       \E i \in 1..Len(rows) : rows[i].id = arg[o].qid

\* A reader answered while another request's transaction had deleted a
\* question and renumbered one of the others, uncommitted.
C4_Witness ==
    \E p \in Procs, o \in Procs :
        /\ pc[p] = "done" /\ op[p] \in Readers /\ res[p].status = "ok"
        /\ op[o] = "deleteQuestionById"
        /\ tx[o].del # {}
        /\ DOMAIN tx[o].num # {}
        /\ Covers(p, arg[o].id)

\* The papers an upload has created, committed or not.
CreatedBy(p) == DOMAIN tx[p].newA \cup ({loc[p].aid} \ {0})

\* C5: an upload is all-or-nothing: until it commits, and for good when it
\* ends in an error, neither its assessment nor any of its questions is in
\* the committed tables a reader reads, and no reader's response shows them;
\* once it has committed the assessment is there with all N questions.
C5_UploadAllOrNothing ==
    \A p \in Procs :
        op[p] = "uploadExamPaper"
        => /\ ~Ended(p, "uploadExamPaper", "ok")
              => \A a \in CreatedBy(p) :
                    /\ a \notin DOMAIN assessments
                    /\ QuestionsOf(questions, a) = {}
                    /\ \A r \in Procs \ {p} :
                          (pc[r] = "done" /\ op[r] \in Readers)
                          => \A rows \in ViewLists(r) : \A i \in 1..Len(rows) :
                                rows[i].assessmentId # a
           /\ Ended(p, "uploadExamPaper", "ok")
              => /\ loc[p].aid \in DOMAIN assessments
                 /\ Cardinality(QuestionsOf(questions, loc[p].aid)) = Len(loc[p].qs)
                 /\ Len(loc[p].qs) > 0

\* An upload failed after its assessment and two of its three questions had
\* been inserted.
C5_Witness ==
    \E p \in Procs :
        /\ Ended(p, "uploadExamPaper", "StoreError")
        /\ loc[p].aid # 0
        /\ Len(loc[p].qs) = 3
        /\ Cardinality(loc[p].pending) = 1

\* C6 as the specification states it: a deleteExamPaper on an existing paper
\* ends in the conflict, removing nothing, when it counted at least one
\* question, and succeeds, removing the paper, when it counted none - also
\* when two deleteExamPaper calls overlap.
C6_DeleteExamPaperByCount ==
    \A p \in Procs :
        (pc[p] = "done" /\ op[p] = "deleteExamPaper" /\ res[p].status # "NotFound")
        => IF loc[p].snap # <<>>
           THEN /\ res[p].status = "HasDependentQuestions"
                /\ arg[p].id \in DOMAIN assessments
                /\ FindQuestions(questions, arg[p].id) = loc[p].snap
           ELSE /\ res[p].status = "ok"
                /\ arg[p].id \notin DOMAIN assessments

\* A deleteExamPaper that found the paper and counted no question ended in
\* the store's error: an overlapping deleteExamPaper had removed the paper.
C6_SecondDeleteThrows ==
    \E p \in Procs :
        /\ Ended(p, "deleteExamPaper", "StoreError")
        /\ loc[p].snap = <<>>
        /\ arg[p].id \notin DOMAIN assessments

\* C7 as the specification states it: a successful upload stores isDraft =
\* true unless the request carried isDraft explicitly false.
C7_DraftUnlessExplicitlyFalse ==
    \A p \in Procs :
        Ended(p, "uploadExamPaper", "ok")
        => LET given == arg[p].dto.dto.isDraft
           IN  assessments[loc[p].aid].isDraft = ~(given.def /\ ~given.b)

\* An upload that did not carry isDraft stored a published paper.
C7_OmittedStoresPublished ==
    \E p \in Procs :
        /\ Ended(p, "uploadExamPaper", "ok")
        /\ ~arg[p].dto.dto.isDraft.def
        /\ ~assessments[loc[p].aid].isDraft

\* C8: the committed tables change only in the step in which a request ends
\* successfully: a request that ends in an error has changed nothing.
C8_ErrorsChangeNothing ==
    [][(assessments' # assessments \/ questions' # questions)
       => \E p \in Procs :
             pc[p] # "done" /\ pc'[p] = "done" /\ res'[p].status = "ok"]_vars

\* A deleteQuestionById was rolled back after it had deleted the question and
\* renumbered another; the paper still owns its three questions.
C8_Witness ==
    \E p \in Procs :
        /\ Ended(p, "deleteQuestionById", "StoreError")
        /\ loc[p].i > 0
        /\ Cardinality(QuestionsOf(questions, arg[p].id)) = 3

\* The stored answers a question can have.
Answers == {"", "A", "B"}

\* The Question table with the answers replaced.
WithAnswers(qs, alt) ==
    [q \in DOMAIN qs |->
        IF q \in DOMAIN alt THEN [qs[q] EXCEPT !.answer = alt[q]] ELSE qs[q]]

\* C9: no element of an allQuestionsNoAnswer response has an answer field,
\* and the response is the same whatever answers the questions store.
C9_NoAnswerInView ==
    \A p \in Procs :
        (pc[p] = "done" /\ op[p] = "allQuestionsNoAnswer")
        => /\ \A i \in 1..Len(res[p].out) : "answer" \notin DOMAIN res[p].out[i]
           /\ \A alt \in [QuestionsOf(questions, arg[p].id) -> Answers] :
                 NoAnswerView(WithAnswers(questions, alt), arg[p].id) = res[p]

\* allQuestionsNoAnswer answered for a paper with a question whose stored
\* answer is not empty.
C9_Witness ==
    \E p \in Procs :
        /\ Ended(p, "allQuestionsNoAnswer", "ok")
        /\ Len(res[p].out) = 3
        /\ \E q \in QuestionsOf(questions, arg[p].id) : questions[q].answer # ""

\* C10: a paper that is published stays published for as long as it exists.
C10_PublishedStaysPublished ==
    [][\A a \in DOMAIN assessments \cap DOMAIN assessments' :
          ~assessments[a].isDraft => ~assessments'[a].isDraft]_vars

\* An updateExamPaper whose payload carried isDraft = true succeeded on a
\* published paper.
C10_Witness ==
    \E p \in Procs :
        /\ Ended(p, "updateExamPaper", "ok")
        /\ arg[p].dto.isDraft = Bool(TRUE)
        /\ ~assessments[arg[p].id].isDraft
        /\ assessments[arg[p].id].title = "t2"

\* C11: publishExamPaper on a paper that exists succeeds and changes nothing
\* but that paper's isDraft, which becomes false; on a paper that is already
\* published it succeeds and leaves the tables as they are, so a second
\* publish leaves the state the first one left.
C11_PublishIdempotent ==
    [][\A p \in Procs :
          (/\ op[p] = "publishExamPaper"
           /\ pc[p] = "pub_update" /\ pc'[p] = "done"
           /\ arg[p].id \in DOMAIN assessments)
          => /\ res'[p].status = "ok"
             /\ assessments' = [assessments EXCEPT ![arg[p].id].isDraft = FALSE]
             /\ ~assessments[arg[p].id].isDraft => assessments' = assessments
             /\ questions' = questions]_vars

\* One publishExamPaper has succeeded on a paper while a second one, which
\* has looked the paper up, is about to update it again.
C11_Witness ==
    \E p \in Procs, o \in Procs :
        /\ Ended(p, "publishExamPaper", "ok")
        /\ op[o] = "publishExamPaper" /\ pc[o] = "pub_update"
        /\ arg[o].id = arg[p].id
        /\ ~assessments[arg[p].id].isDraft

\* C12 as the specification states it: the assessment a successful upload
\* has persisted has startTime < endTime.
C12_StartBeforeEnd ==
    \A p \in Procs :
        Ended(p, "uploadExamPaper", "ok")
        => assessments[loc[p].aid].startTime < assessments[loc[p].aid].endTime

\* An upload with startTime "11:00:00" and endTime "09:00:00" was accepted
\* and persisted with its end before its start.
C12_EndBeforeStart ==
    \E p \in Procs :
        /\ Ended(p, "uploadExamPaper", "ok")
        /\ arg[p].dto.dto.startTime = T110000
        /\ arg[p].dto.dto.endTime = T090000
        /\ assessments[loc[p].aid].endTime < assessments[loc[p].aid].startTime

\* The file of the upload request p is running, when it is a present .csv.
CsvGiven(p) ==
    /\ op[p] = "uploadExamPaper"
    /\ arg[p].dto.file.present
    /\ EndsWithCsv(arg[p].dto.file.originalname)

\* C13: an upload of a present .csv file ends in EmptyQuestionSet, with no
\* row created, when no row of the file survives parsing, and never ends in
\* EmptyQuestionSet when at least one row survives, whatever happens to the
\* other rows.
C13_EmptyIffNoSurvivor ==
    \A p \in Procs :
        CsvGiven(p)
        => IF Survivors(Disk(arg[p].dto.file.path)) = <<>>
           THEN /\ Ended(p, "uploadExamPaper", "EmptyQuestionSet")
                /\ CreatedBy(p) = {}
                /\ tx[p] = NoTx
           ELSE res[p].status # "EmptyQuestionSet"

\* A file with one row that fails to parse and one that parses was accepted
\* and stored as a paper with one question.
C13_Witness ==
    \E p \in Procs :
        /\ CsvGiven(p)
        /\ Ended(p, "uploadExamPaper", "ok")
        /\ Len(Disk(arg[p].dto.file.path)) = 2
        /\ Len(Survivors(Disk(arg[p].dto.file.path))) = 1
        /\ Cardinality(QuestionsOf(questions, loc[p].aid)) = 1

\* C14 as the specification states it: a deleteQuestionById ends in success
\* or in NotFound, also when it overlaps with another deleteQuestionById or
\* a deleteAllQuestions on the same paper.
C14_DeleteEndsOkOrNotFound ==
    \A p \in Procs :
        (pc[p] = "done" /\ op[p] = "deleteQuestionById")
        => res[p].status \in {"ok", "NotFound"}

\* A deleteQuestionById that had found its question ended in the store's
\* error before it had written anything: the question was gone when its
\* transaction ran the delete.
C14_DeleteThrows ==
    \E p \in Procs :
        /\ Ended(p, "deleteQuestionById", "StoreError")
        /\ arg[p].qid \in SnapshotIds(loc[p].snap)
        /\ arg[p].qid \notin DOMAIN questions
        /\ loc[p].i = 0

\* Whether an optional string is absent or empty.
Blank(x) == ~x.def \/ x.s = ""

\* C15: every stored answer is a string, never an unset value; a row
\* uploaded without an answer is stored with the answer '', and an
\* updateQuestion with an empty or absent answer stores ''.
C15_AnswerAlwaysString ==
    /\ \A q \in DOMAIN questions : questions[q].answer \in Answers
    /\ \A p \in Procs :
          /\ (Ended(p, "updateQuestion", "ok") /\ Blank(arg[p].dto.answer))
             => questions[arg[p].qid].answer = ""
          /\ Ended(p, "uploadExamPaper", "ok")
             => LET rows == Survivors(Disk(arg[p].dto.file.path))
                    stored == FindQuestions(questions, loc[p].aid)
                IN  \A i \in 1..Len(rows) :
                       Blank(rows[i].answer) => stored[i].answer = ""

\* An updateQuestion that carried no answer succeeded on a question of a
\* paper uploaded from the three-row file; the question's answer is ''.
C15_Witness ==
    \E p \in Procs :
        /\ Ended(p, "updateQuestion", "ok")
        /\ ~arg[p].dto.answer.def
        /\ questions[arg[p].qid].answer = ""
        /\ questions[arg[p].qid].content = "Q1"

\* The step in which request p's manualAssessment.update is carried out.
MaUpdateStep(p) ==
    /\ op[p] = "ManualAssessmentService.update"
    /\ pc[p] = "ma_update"
    /\ pc'[p] = "done"

\* C16: for every field of a manual assessment, an update that omits the
\* field leaves the stored value as it was, and an update that supplies the
\* field stores the supplied value.
C16_UpdateFieldByField ==
    [][\A p \in Procs :
          MaUpdateStep(p)
          => \A f \in MaFields :
                LET x == arg[p].dto.fields[f]
                IN  manualAssessments'[arg[p].id][f] =
                        IF x.def THEN x.v ELSE manualAssessments[arg[p].id][f]]_vars

\* An update that supplied an empty (falsy) value for a field has succeeded
\* and the field still holds its earlier value.
C16_SuppliedValueDropped ==
    \E p \in Procs, f \in MaFields :
        /\ Ended(p, "ManualAssessmentService.update", "ok")
        /\ arg[p].dto.fields[f] = Given(Falsy(f))
        /\ manualAssessments[arg[p].id][f] # Falsy(f)

\* C18: after update(id, data) with question list L the question rows of the
\* assessment are exactly the rows built from L, the earlier rows replaced;
\* an update without a question list leaves the number of rows as it was.
C18_UpdateReplacesQuestions ==
    [][\A p \in Procs :
          MaUpdateStep(p)
          => LET L == arg[p].dto.questions
                 before == ManualQuestionsOf(questionManuals, arg[p].id)
                 after == ManualQuestionsOf(questionManuals', arg[p].id)
             IN  IF L.def
                 THEN after = NestedCreate(<<>>, arg[p].id, MapQuestions(L))
                 ELSE Len(after) = Len(before)]_vars

\* An update with the one-question list has succeeded and the assessment has
\* more than that one question row.
C18_RowsAccumulate ==
    \E p \in Procs :
        /\ Ended(p, "ManualAssessmentService.update", "ok")
        /\ arg[p].dto.questions = List(<<MQ1>>)
        /\ Len(ManualQuestionsOf(questionManuals, arg[p].id)) > 1

\* The schedule checks applied again to request p's upload, with the three
\* strings of its response in place of the ones it sent.
Revalidated(p) ==
    LET out == res[p].out[1]
    IN  Validate(arg[p].dto.file,
                 [arg[p].dto.dto EXCEPT !.scheduledDate = out.scheduledDate,
                                        !.startTime = out.startTime,
                                        !.endTime = out.endTime])

\* C17: for every accepted upload the scheduledDate, startTime and endTime
\* strings of the response, put through the schedule checks again, give the
\* start and end timestamps that were persisted.
C17_RoundTrip ==
    \A p \in Procs :
        Ended(p, "uploadExamPaper", "ok")
        => /\ Revalidated(p).status = "ok"
           /\ Revalidated(p).startTime = assessments[loc[p].aid].startTime
           /\ Revalidated(p).endTime = assessments[loc[p].aid].endTime

\* An upload sent with the start time "25:00:00" was accepted, and the start
\* time of its response, checked again, is a day before the persisted one.
C17_ShiftedDay ==
    \E p \in Procs :
        /\ Ended(p, "uploadExamPaper", "ok")
        /\ arg[p].dto.dto.startTime = T250000
        /\ Revalidated(p).status = "ok"
        /\ Revalidated(p).startTime + 86400 = assessments[loc[p].aid].startTime

\* Whether a time string has three ':'-separated parts, each a number.
ThreeNumbers(t) == Len(t) = 3 /\ \A i \in 1..3 : ~NumberOf(t[i]).nan

\* The first of the four checks that a request fails, "ok" when it fails none.
FirstFailure(in) ==
    IF ~(in.file.present /\ EndsWithCsv(in.file.originalname)) THEN "InvalidFile"
    ELSE IF Survivors(Disk(in.file.path)) = <<>> THEN "EmptyQuestionSet"
    ELSE IF ~StrictDateValid(in.dto.scheduledDate) THEN "InvalidScheduleFormat"
    ELSE IF ~(ThreeNumbers(in.dto.startTime) /\ ThreeNumbers(in.dto.endTime))
    THEN "InvalidTimeFormat"
    ELSE "ok"

\* C19: an upload applies its checks in the order file and extension,
\* question set, scheduled date, times, and ends in the error of the first
\* check its request fails; it has opened no transaction and created no row
\* unless the request passes all four, and then it ends in none of the four
\* errors (it succeeds, or the store throws inside the transaction).
C19_ChecksInOrder ==
    \A p \in Procs :
        op[p] = "uploadExamPaper"
        => IF FirstFailure(arg[p].dto) # "ok"
           THEN /\ Ended(p, "uploadExamPaper", FirstFailure(arg[p].dto))
                /\ tx[p] = NoTx
                /\ CreatedBy(p) = {}
           ELSE pc[p] = "done" => res[p].status \in {"ok", "StoreError"}

\* An upload of a .csv file without a usable row, with a malformed date and a
\* start time of two parts, ended in EmptyQuestionSet.
C19_Witness ==
    \E p \in Procs :
        /\ Ended(p, "uploadExamPaper", "EmptyQuestionSet")
        /\ ~StrictDateValid(arg[p].dto.dto.scheduledDate)
        /\ ~ThreeNumbers(arg[p].dto.dto.startTime)

\* C20: updateQuestion(id, questionId, dto) changes a question only when the
\* question belongs to exam paper id; for a question of another exam paper
\* it ends in NotFound and changes nothing.
C20_UpdateOnlyInOwnPaper ==
    [][\A p \in Procs :
          (op'[p] = "updateQuestion" /\ pc'[p] = "done"
             /\ arg'[p].qid \in DOMAIN questions
             /\ questions[arg'[p].qid].assessmentId # arg'[p].id)
          => /\ res'[p].status = "NotFound"
             /\ questions' = questions]_vars

\* An updateQuestion addressed to one exam paper has returned ok after
\* rewriting the content of a question of another exam paper.
C20_OtherPaperUpdated ==
    \E p \in Procs :
        /\ Ended(p, "updateQuestion", "ok")
        /\ questions[arg[p].qid].assessmentId # arg[p].id
        /\ questions[arg[p].qid].content = "Q9"

\* A step taken by request p's updateQuestion: its lookup or its update.
UpdateQuestionStep(p) ==
    /\ op'[p] = "updateQuestion"
    /\ pc'[p] # pc[p]

\* C21: updateQuestion changes nothing but the content, options and answer
\* of the question it targets: that question keeps its questionNumber and
\* assessmentId, no question is added or removed, every other question and
\* every assessment stays as it was, and a paper numbered 1..N stays so.
C21_UpdateQuestionFrame ==
    [][\A p \in Procs :
          UpdateQuestionStep(p)
          => /\ assessments' = assessments
             /\ DOMAIN questions' = DOMAIN questions
             /\ \A q \in DOMAIN questions :
                   IF q = arg'[p].qid
                   THEN /\ questions'[q].questionNumber = questions[q].questionNumber
                        /\ questions'[q].assessmentId = questions[q].assessmentId
                   ELSE questions'[q] = questions[q]
             /\ \A a \in AIds :
                   Dense(FindQuestions(questions, a))
                   => Dense(FindQuestions(questions', a))]_vars

\* An updateQuestion has rewritten the content and answer of the second of
\* the three questions of an exam paper.
C21_Witness ==
    \E p \in Procs :
        /\ Ended(p, "updateQuestion", "ok")
        /\ questions[arg[p].qid].content = "Q9"
        /\ questions[arg[p].qid].answer = "B"
        /\ questions[arg[p].qid].questionNumber = 2
        /\ Len(FindQuestions(questions, questions[arg[p].qid].assessmentId)) = 3

====
